---- MODULE Spec2Model ----
(***************************************************************************)
(* GraphMLParser (src/ogdf/fileformats/GraphMLParser.cpp): the decoder     *)
(* that walks an already parsed XML tree and fills a Graph, a ClusterGraph *)
(* and their attribute stores.  The XML tree is the state variable doc;    *)
(* the parser's members are m_error, m_graphTag, m_attrName and m_nodeId;  *)
(* the caller's objects are G, C, GA (node and edge attributes and the     *)
(* capability mask) and CA (cluster attributes).  A read is walked one     *)
(* element at a time with an explicit stack of readClusters frames.        *)
(***************************************************************************)
EXTENDS Integers, Sequences, FiniteSets, TLC

(***************************************************************************)
(* Bounds of the model.                                                    *)
(***************************************************************************)
\* node and edge elements of a generated document (all nesting levels)
MaxElems == 3
\* data children of one element in the generated data sequences
MaxData == 2
\* nodes of the caller's graph before the first read
MaxPrior == 1

(***************************************************************************)
(* XML tree (XmlParser / XmlTagObject, consumed read-only).                *)
(* findXmlAttributeObjectByName yields nullptr for an absent attribute:    *)
(* NoAttr.  findSonXmlTagObjectByName yields nullptr for an absent son:    *)
(* NoTag.  Text is a sequence of one-character strings.                    *)
(***************************************************************************)
NoAttr == "<absent>"
NoTag == [absent |-> TRUE]
Ids == {"a", "b"}

\* <data key=.. >value</data>
DataElem(k, val) == [key |-> k, value |-> val]
\* <node id=..> data* graph? </node>
NodeElem(i, g, ds) == [id |-> i, graph |-> g, data |-> ds]
\* <edge source=.. target=..> data* </edge>
EdgeElem(s, t, ds) == [source |-> s, target |-> t, data |-> ds]
\* <graph> node* edge* </graph>
GraphElem(ns, es) == [nodes |-> ns, edges |-> es]

IsGraphTag(t) == t # NoTag

(***************************************************************************)
(* std::stringstream value(tag.getValue()) and operator>>.                 *)
(* A stream is the unread text and good(): an extraction starts with a     *)
(* sentry, which fails (and leaves the target untouched) when the stream   *)
(* is not good or holds only white space; a numeric extraction that finds  *)
(* no digit stores 0 and sets failbit; an extraction that consumes the     *)
(* last character sets eofbit.                                             *)
(***************************************************************************)
Space == " "
DigitVal ==
    [c \in {"0", "1", "2", "3", "4", "5", "6", "7", "8", "9"} |->
        CASE c = "0" -> 0 [] c = "1" -> 1 [] c = "2" -> 2 [] c = "3" -> 3
          [] c = "4" -> 4 [] c = "5" -> 5 [] c = "6" -> 6 [] c = "7" -> 7
          [] c = "8" -> 8 [] c = "9" -> 9]
IsDigit(c) == c \in DOMAIN DigitVal

Stream(text) == [buf |-> text, good |-> TRUE]

RECURSIVE SkipWs(_)
SkipWs(s) ==
    IF s # <<>> /\ Head(s) = Space THEN SkipWs(Tail(s)) ELSE s

RECURSIVE LeadDigits(_)
LeadDigits(s) ==
    IF s # <<>> /\ IsDigit(Head(s)) THEN <<Head(s)>> \o LeadDigits(Tail(s)) ELSE <<>>

RECURSIVE LeadToken(_)
LeadToken(s) ==
    IF s # <<>> /\ Head(s) # Space THEN <<Head(s)>> \o LeadToken(Tail(s)) ELSE <<>>

RECURSIVE NumOf(_)
NumOf(d) ==
    IF d = <<>> THEN 0 ELSE 10 * NumOf(SubSeq(d, 1, Len(d) - 1)) + DigitVal[d[Len(d)]]

Rest(s, n) == SubSeq(s, n + 1, Len(s))

\* value >> number (int or double): [wrote, val, st]
ExtractNum(st) ==
    LET s == SkipWs(st.buf)
        d == LeadDigits(s)
    IN  IF ~st.good THEN [wrote |-> FALSE, val |-> 0, st |-> st]
        ELSE IF s = <<>> THEN [wrote |-> FALSE, val |-> 0, st |-> [buf |-> s, good |-> FALSE]]
        ELSE IF d = <<>> THEN [wrote |-> TRUE, val |-> 0, st |-> [buf |-> s, good |-> FALSE]]
        ELSE [wrote |-> TRUE, val |-> NumOf(d),
              st |-> [buf |-> Rest(s, Len(d)), good |-> Rest(s, Len(d)) # <<>>]]

\* value >> std::string: [wrote, val, st]
ExtractStr(st) ==
    LET s == SkipWs(st.buf)
        t == LeadToken(s)
    IN  IF ~st.good THEN [wrote |-> FALSE, val |-> <<>>, st |-> st]
        ELSE IF s = <<>> THEN [wrote |-> FALSE, val |-> <<>>, st |-> [buf |-> s, good |-> FALSE]]
        ELSE [wrote |-> TRUE, val |-> t,
              st |-> [buf |-> Rest(s, Len(t)), good |-> Rest(s, Len(t)) # <<>>]]

\* value >> field: the field keeps its content when nothing is stored
Stored(x, old) == IF x.wrote THEN x.val ELSE old
\* value >> local; a local declared without initializer holds u when nothing is stored
Local(x, u) == IF x.wrote THEN x.val ELSE u
\* static_cast<uint8_t>(int)
ToUint8(n) == n % 256

(***************************************************************************)
(* graphml::Attribute and graphml::toAttribute (GraphML.h): the closed set *)
(* of attribute kinds and the total map from a semantic name to a kind.    *)
(***************************************************************************)
AttrNames ==
    [a_nodeLabel |-> "label", a_edgeLabel |-> "edgelabel",
     a_x |-> "x", a_y |-> "y", a_z |-> "z",
     a_width |-> "width", a_height |-> "height", a_size |-> "size",
     a_shape |-> "shape",
     a_nodeStroke |-> "nodestroke", a_edgeStroke |-> "edgestroke",
     a_clusterStroke |-> "clusterstroke", a_nodeFill |-> "nodefill",
     a_r |-> "r", a_g |-> "g", a_b |-> "b",
     a_nodeWeight |-> "nodeweight", a_edgeWeight |-> "weight",
     a_nodeType |-> "nodetype", a_edgeType |-> "edgetype",
     a_template |-> "template", a_edgeArrow |-> "arrow"]
Kinds == DOMAIN AttrNames
a_unknown == "a_unknown"

toAttribute(name) ==
    IF \E k \in Kinds : AttrNames[k] = name
    THEN CHOOSE k \in Kinds : AttrNames[k] = name
    ELSE a_unknown

(***************************************************************************)
(* The small vocabularies of the string valued fields: graphml::toShape,   *)
(* toNodeType, toEdgeType, toArrow and Color's assignment from a string.   *)
(* An unrecognized token yields the default variant.                       *)
(***************************************************************************)
toShape(t) == IF t = <<"e">> THEN "shEllipse" ELSE "shRect"
toNodeType(t) == IF t = <<"d">> THEN "dummy" ELSE "vertex"
toEdgeType(t) == IF t = <<"g">> THEN "generalization" ELSE "association"
toArrow(t) == IF t = <<"n">> THEN "eaNone" ELSE "eaUndefined"
Rgb(r, g, b) == [red |-> r, green |-> g, blue |-> b]
toColor(t) == IF t = <<"w">> THEN Rgb(255, 255, 255) ELSE Rgb(0, 0, 0)

(***************************************************************************)
(* GraphAttributes / ClusterGraphAttributes: the capability bits and the   *)
(* fields of a fresh node, edge and cluster.                               *)
(***************************************************************************)
Bits ==
    {"nodeLabel", "nodeGraphics", "threeD", "nodeStyle", "nodeType",
     "nodeTemplate", "nodeWeight", "edgeLabel", "edgeIntWeight",
     "edgeDoubleWeight", "edgeType", "edgeArrow", "edgeStyle"}

NodeAttrInit ==
    [label |-> <<>>, x |-> 0, y |-> 0, z |-> 0, width |-> 20, height |-> 20,
     shape |-> "shRect", fillColor |-> Rgb(255, 255, 255),
     strokeColor |-> Rgb(0, 0, 0), type |-> "vertex", templateNode |-> <<>>,
     weight |-> 0]
EdgeAttrInit ==
    [label |-> <<>>, intWeight |-> 1, doubleWeight |-> 1, type |-> "association",
     arrowType |-> "eaUndefined", strokeColor |-> Rgb(0, 0, 0)]
ClusterAttrInit ==
    [label |-> <<>>, x |-> 0, y |-> 0, width |-> 0, height |-> 0,
     fillColor |-> Rgb(255, 255, 255), strokeColor |-> Rgb(0, 0, 0)]

(***************************************************************************)
(* HashArray subscript, as used on m_attrName and m_nodeId: a reference to *)
(* the slot of the index, created with the default value when absent.      *)
(***************************************************************************)
Subscript(m, i, dflt) == IF i \in DOMAIN m THEN m ELSE m @@ (i :> dflt)
Assign(m, i, v) == [j \in DOMAIN m \cup {i} |-> IF j = i THEN v ELSE m[j]]
Empty == [i \in {} |-> 0]

\* attrs & GraphAttributes::bit
HasBitAlways(attrs, bit) == TRUE
HasBit(attrs, bit) == bit \in attrs

\* GA.height(v) == GA.width(v), CA.width(c) == CA.height(c)
SameSizeAlways(w, h) == TRUE
SameSize(w, h) == w = h

\* default: OGDF_WARNING(..) only
UnknownAttributeLabelled(fields) == [fields EXCEPT !.label = <<"?">>]
UnknownAttribute(fields) == fields

(***************************************************************************)
(* The three readData switches.  na / ea / ca are the fields of the node,  *)
(* edge or cluster, attrs is GA.attributes(), kind the switch value, text  *)
(* the data element's value; u1 and u2 are what the locals size and r hold *)
(* when the extraction stores nothing into them.                           *)
(***************************************************************************)
readDataNode(na, attrs, kind, text, u1, u2) ==
    LET value == Stream(text)
        num == ExtractNum(value)
        str == ExtractStr(value)
    IN  CASE kind = "a_nodeLabel" ->
                IF HasBit(attrs, "nodeLabel") THEN [na EXCEPT !.label = Stored(str, @)] ELSE na
          [] kind = "a_x" ->
                IF HasBit(attrs, "nodeGraphics") THEN [na EXCEPT !.x = Stored(num, @)] ELSE na
          [] kind = "a_y" ->
                IF HasBit(attrs, "nodeGraphics") THEN [na EXCEPT !.y = Stored(num, @)] ELSE na
          [] kind = "a_width" ->
                IF HasBit(attrs, "nodeGraphics") THEN [na EXCEPT !.width = Stored(num, @)] ELSE na
          [] kind = "a_height" ->
                IF HasBit(attrs, "nodeGraphics") THEN [na EXCEPT !.height = Stored(num, @)] ELSE na
          [] kind = "a_size" ->
                IF HasBit(attrs, "nodeGraphics")
                THEN LET size == Local(num, u1)
                     IN  IF SameSize(na.height, na.width)
                         THEN [na EXCEPT !.height = size, !.width = size]
                         ELSE na
                ELSE na
          [] kind = "a_shape" ->
                IF HasBit(attrs, "nodeGraphics")
                THEN [na EXCEPT !.shape = toShape(Stored(str, <<>>))] ELSE na
          [] kind = "a_z" ->
                IF HasBit(attrs, "threeD") THEN [na EXCEPT !.z = Stored(num, @)] ELSE na
          [] kind = "a_r" ->
                IF HasBit(attrs, "nodeStyle")
                THEN [na EXCEPT !.fillColor.red = ToUint8(Local(num, u2))] ELSE na
          [] kind = "a_g" ->
                IF HasBit(attrs, "nodeStyle")
                THEN [na EXCEPT !.fillColor.green = ToUint8(Local(num, u2))] ELSE na
          [] kind = "a_b" ->
                IF HasBit(attrs, "nodeStyle")
                THEN [na EXCEPT !.fillColor.blue = ToUint8(Local(num, u2))] ELSE na
          [] kind = "a_nodeFill" ->
                IF HasBit(attrs, "nodeStyle")
                THEN [na EXCEPT !.fillColor = toColor(Stored(str, <<>>))] ELSE na
          [] kind = "a_nodeStroke" ->
                IF HasBit(attrs, "nodeStyle")
                THEN [na EXCEPT !.strokeColor = toColor(Stored(str, <<>>))] ELSE na
          [] kind = "a_nodeType" ->
                IF HasBit(attrs, "nodeType")
                THEN [na EXCEPT !.type = toNodeType(Stored(str, <<>>))] ELSE na
          [] kind = "a_template" ->
                IF HasBit(attrs, "nodeTemplate")
                THEN [na EXCEPT !.templateNode = Stored(str, @)] ELSE na
          [] kind = "a_nodeWeight" ->
                IF HasBit(attrs, "nodeWeight") THEN [na EXCEPT !.weight = Stored(num, @)] ELSE na
          [] OTHER -> UnknownAttribute(na)

readDataEdge(ea, attrs, kind, text) ==
    LET value == Stream(text)
        num == ExtractNum(value)
        str == ExtractStr(value)
    IN  CASE kind = "a_edgeLabel" ->
                IF HasBit(attrs, "edgeLabel") THEN [ea EXCEPT !.label = Stored(str, @)] ELSE ea
          [] kind = "a_edgeWeight" ->
                IF HasBit(attrs, "edgeIntWeight")
                THEN [ea EXCEPT !.intWeight = Stored(num, @)]
                ELSE IF HasBit(attrs, "edgeDoubleWeight")
                     THEN [ea EXCEPT !.doubleWeight = Stored(num, @)]
                     ELSE ea
          [] kind = "a_edgeType" ->
                IF HasBit(attrs, "edgeType")
                THEN [ea EXCEPT !.type = toEdgeType(Stored(str, <<>>))] ELSE ea
          [] kind = "a_edgeArrow" ->
                IF HasBit(attrs, "edgeArrow")
                THEN [ea EXCEPT !.arrowType = toArrow(Stored(str, <<>>))] ELSE ea
          [] kind = "a_edgeStroke" ->
                IF HasBit(attrs, "edgeStyle")
                THEN [ea EXCEPT !.strokeColor = toColor(Stored(str, <<>>))] ELSE ea
          [] OTHER -> UnknownAttribute(ea)

\* case a_size has no break: control falls through into case a_r, which
\* extracts r from the same stream
readDataCluster(ca, attrs, kind, text, u1, u2) ==
    LET value == Stream(text)
        num == ExtractNum(value)
        str == ExtractStr(value)
    IN  CASE kind = "a_nodeLabel" -> [ca EXCEPT !.label = Stored(str, @)]
          [] kind = "a_x" -> [ca EXCEPT !.x = Stored(num, @)]
          [] kind = "a_y" -> [ca EXCEPT !.y = Stored(num, @)]
          [] kind = "a_width" -> [ca EXCEPT !.width = Stored(num, @)]
          [] kind = "a_height" -> [ca EXCEPT !.height = Stored(num, @)]
          [] kind = "a_size" ->
                LET size == Local(num, u1)
                    sized == IF SameSize(ca.width, ca.height)
                             THEN [ca EXCEPT !.width = size, !.height = size]
                             ELSE ca
                    r == ExtractNum(num.st)
                IN  [sized EXCEPT !.fillColor.red = ToUint8(Local(r, u2))]
          [] kind = "a_r" -> [ca EXCEPT !.fillColor.red = ToUint8(Local(num, u2))]
          [] kind = "a_g" -> [ca EXCEPT !.fillColor.green = ToUint8(Local(num, u2))]
          [] kind = "a_b" -> [ca EXCEPT !.fillColor.blue = ToUint8(Local(num, u2))]
          [] kind = "a_clusterStroke" -> [ca EXCEPT !.strokeColor = toColor(text)]
          [] OTHER -> UnknownAttribute(ca)

(***************************************************************************)
(* Documents.  A document is what XmlParser hands over: whether the parse  *)
(* tree could be built, the root tag's name, its first <graph> son and its *)
(* <key> sons in document order.                                           *)
(***************************************************************************)
Document(ok, root, g, ks) == [parseOk |-> ok, root |-> root, graph |-> g, keys |-> ks]
KeyElem(i, n) == [id |-> i, name |-> n]

\* Structure documents: every graph of at most MaxElems node and edge
\* elements over the ids of Ids, with absent ids, sources and targets, and
\* nested graphs to any depth the size allows.  No data children.
EdgeEnds ==
    (Ids \X Ids) \cup {<<NoAttr, "a">>, <<"a", NoAttr>>}
EdgeElems == {EdgeElem(p[1], p[2], <<>>) : p \in EdgeEnds}

RECURSIVE SeqsOf(_, _)
SeqsOf(S, n) ==
    IF n = 0 THEN {<<>>} ELSE {<<x>> \o t : x \in S, t \in SeqsOf(S, n - 1)}

RECURSIVE GraphsOfSize(_), NodeSeqsOfSize(_), NodeElemsOfSize(_)
NodeElemsOfSize(w) ==
    {NodeElem(i, g, <<>>) : i \in Ids \cup {NoAttr}, g \in GraphsOfSize(w - 1)}
        \cup (IF w = 1 THEN {NodeElem(i, NoTag, <<>>) : i \in Ids \cup {NoAttr}} ELSE {})
NodeSeqsOfSize(n) ==
    IF n = 0 THEN {<<>>}
    ELSE UNION {{<<e>> \o t : e \in NodeElemsOfSize(w), t \in NodeSeqsOfSize(n - w)} : w \in 1..n}
GraphsOfSize(n) ==
    UNION {{GraphElem(ns, es) : ns \in NodeSeqsOfSize(k), es \in SeqsOf(EdgeElems, n - k)} : k \in 0..n}

StructDocs(size) ==
    {Document(TRUE, "graphml", g, <<>>) : g \in UNION {GraphsOfSize(n) : n \in 0..size}}

\* Attribute documents: one leaf node a, one cluster node c holding a leaf
\* b, and one edge a -> a; one of the three carries a sequence of data
\* children.  The key declarations name every attribute kind, one name
\* outside the vocabulary, and one id declared twice.
KeyDecls ==
    <<KeyElem("d_size", "x"),
      KeyElem("d_label", "label"), KeyElem("d_elabel", "edgelabel"),
      KeyElem("d_x", "x"), KeyElem("d_y", "y"), KeyElem("d_z", "z"),
      KeyElem("d_width", "width"), KeyElem("d_height", "height"),
      KeyElem("d_size", "size"), KeyElem("d_shape", "shape"),
      KeyElem("d_nstroke", "nodestroke"), KeyElem("d_estroke", "edgestroke"),
      KeyElem("d_cstroke", "clusterstroke"), KeyElem("d_nfill", "nodefill"),
      KeyElem("d_r", "r"), KeyElem("d_g", "g"), KeyElem("d_b", "b"),
      KeyElem("d_nweight", "nodeweight"), KeyElem("d_weight", "weight"),
      KeyElem("d_ntype", "nodetype"), KeyElem("d_etype", "edgetype"),
      KeyElem("d_template", "template"), KeyElem("d_arrow", "arrow"),
      KeyElem("d_foo", "foo")>>
DeclaredIds == {KeyDecls[i].id : i \in DOMAIN KeyDecls}
Undeclared == "d_none"

CommonValues == {<<>>, <<"5">>, <<"5", " ", "7">>, <<"x">>}
VocabValues(k) ==
    CASE k = "d_shape" -> {<<"e">>}
      [] k = "d_ntype" -> {<<"d">>}
      [] k = "d_etype" -> {<<"g">>}
      [] k = "d_arrow" -> {<<"n">>}
      [] k \in {"d_nfill", "d_nstroke", "d_estroke", "d_cstroke"} -> {<<"w">>}
      [] OTHER -> {}
SingleData ==
    {DataElem(k, v) : k \in DeclaredIds \cup {Undeclared, NoAttr}, v \in CommonValues}
        \cup UNION {{DataElem(k, v) : v \in VocabValues(k)} : k \in DeclaredIds}
SeqData ==
    {DataElem("d_width", <<"5">>), DataElem("d_height", <<"7">>), DataElem("d_size", <<"9">>),
     DataElem("d_size", <<"9", " ", "3">>), DataElem("d_r", <<"5">>),
     DataElem(Undeclared, <<"5">>),
     DataElem(NoAttr, <<"5">>)}

AttrGraph(dn, dc, de) ==
    GraphElem(<<NodeElem("a", NoTag, dn),
                NodeElem("c", GraphElem(<<NodeElem("b", NoTag, <<>>)>>, <<>>), dc)>>,
              <<EdgeElem("a", "a", de)>>)
Targeted(ds) == {AttrGraph(ds, <<>>, <<>>), AttrGraph(<<>>, ds, <<>>), AttrGraph(<<>>, <<>>, ds)}

Masks == {{}, Bits} \cup {Bits \ {b} : b \in Bits}
SeqMasks == {{}, Bits}

\* <<document, capability mask>>
SingleInputs ==
    {<<Document(TRUE, "graphml", g, KeyDecls), m>> :
        g \in UNION {Targeted(<<d>>) : d \in SingleData}, m \in Masks}
SeqInputs ==
    {<<Document(TRUE, "graphml", g, KeyDecls), m>> :
        g \in UNION {Targeted(ds) : ds \in UNION {SeqsOf(SeqData, n) : n \in 2..MaxData}},
        m \in SeqMasks}

\* Documents that fail a structural check of the constructor.
PlainGraph == AttrGraph(<<DataElem("d_x", <<"5">>)>>, <<>>, <<>>)
BadInputs ==
    {<<d, Bits>> : d \in
        {Document(FALSE, "graphml", PlainGraph, KeyDecls),
         Document(TRUE, "gexf", PlainGraph, KeyDecls),
         Document(TRUE, "graphml", NoTag, KeyDecls),
         Document(TRUE, "graphml", PlainGraph, <<KeyElem("d_x", "x"), KeyElem(NoAttr, "y")>>),
         Document(TRUE, "graphml", PlainGraph, <<KeyElem("d_x", "x"), KeyElem("d_y", NoAttr)>>)}}

AttrInputs == SingleInputs \cup SeqInputs \cup BadInputs
StructInputs(size) == {<<d, Bits>> : d \in StructDocs(size)}

(***************************************************************************)
(* State.                                                                  *)
(***************************************************************************)
VARIABLES
    doc,        \* m_xml: the parse tree
    pc,         \* "new" before the constructor ran, "idle" between reads,
                \* "reading" inside a read, "crashed" after a null node handle was used
    m_error, m_graphTag, m_attrName, m_nodeId,
    G,          \* caller's Graph: n nodes 1..n, edges as <<source, target>>
    C,          \* caller's ClusterGraph: clusters 1..n below the root 0,
                \* parent of each, cluster of each node
    GA,         \* caller's attributes: mask, node fields, edge fields
    CA,         \* caller's cluster fields
    variant,    \* the read overload running
    stack,      \* frames of readNodes/readEdges/readClusters
    result      \* what the last read returned ("none" before any return)

vars == <<doc, pc, m_error, m_graphTag, m_attrName, m_nodeId, G, C, GA, CA,
          variant, stack, result>>

Variants == {"G", "G_GA", "G_C", "G_C_CA"}
Clustered(v) == v \in {"G_C", "G_C_CA"}
WithAttrs(v) == v \in {"G_GA", "G_C_CA"}

\* Graph, ClusterGraph and the attribute arrays registered with them
NullNode == 0
RootCluster == 0
EmptyGraph == [n |-> 0, edges |-> <<>>]
EmptyClusters == [n |-> 0, parent |-> Empty, of |-> Empty]
PriorGraphs == {EmptyGraph, [n |-> MaxPrior, edges |-> <<<<1, 1>>>>]}

InitWith(inputs) ==
    /\ \E in \in inputs, g \in PriorGraphs :
        /\ doc = in[1]
        /\ G = g
        /\ GA = [mask |-> in[2],
                 node |-> [v \in 1..g.n |-> NodeAttrInit],
                 edge |-> [e \in 1..Len(g.edges) |-> EdgeAttrInit]]
        /\ C = [n |-> 0, parent |-> Empty, of |-> [v \in 1..g.n |-> RootCluster]]
    /\ pc = "new"
    /\ m_error = FALSE
    /\ m_graphTag = NoTag
    /\ m_attrName = Empty
    /\ m_nodeId = Empty
    /\ CA = Empty
    /\ variant = "none"
    /\ stack = <<>>
    /\ result = "none"

(***************************************************************************)
(* GraphMLParser::GraphMLParser                                            *)
(***************************************************************************)
RECURSIVE LoadKeys(_, _)
LoadKeys(ks, m) ==
    IF ks = <<>> THEN [error |-> FALSE, attrName |-> m]
    ELSE IF Head(ks).id = NoAttr THEN [error |-> TRUE, attrName |-> m]
    ELSE IF Head(ks).name = NoAttr THEN [error |-> TRUE, attrName |-> m]
    ELSE LoadKeys(Tail(ks), Assign(m, Head(ks).id, Head(ks).name))

Construct ==
    /\ pc = "new"
    /\ pc' = "idle"
    /\ IF ~doc.parseOk
       THEN m_error' = TRUE /\ UNCHANGED <<m_graphTag, m_attrName>>
       ELSE IF doc.root # "graphml"
       THEN m_error' = TRUE /\ UNCHANGED <<m_graphTag, m_attrName>>
       ELSE IF doc.graph = NoTag
       THEN m_error' = TRUE /\ UNCHANGED <<m_graphTag, m_attrName>>
       ELSE LET k == LoadKeys(doc.keys, m_attrName)
            IN  /\ m_graphTag' = doc.graph
                /\ m_error' = k.error
                /\ m_attrName' = k.attrName
    /\ UNCHANGED <<doc, m_nodeId, G, C, GA, CA, variant, stack, result>>

(***************************************************************************)
(* The walk.  A frame is one activation of readNodes + readEdges (flat) or *)
(* of readClusters: the <graph> tag it walks (as the path of node indices  *)
(* leading to it from m_graphTag), its rootCluster c, the loop it is in    *)
(* (phase), the loop index i, and where it stands on element i: before it  *)
(* ("elem"), inside the recursive call made for it ("call"), or at its     *)
(* j-th data child inside readAttributes ("data").                         *)
(***************************************************************************)
Frame(path, c) ==
    [path |-> path, c |-> c, phase |-> "nodes", i |-> 1, mode |-> "elem",
     j |-> 0, item |-> 0, target |-> "none"]

RECURSIVE TagAt(_, _)
TagAt(g, path) ==
    IF path = <<>> THEN g ELSE TagAt(g.nodes[Head(path)].graph, Tail(path))

Top == stack[Len(stack)]
Tag == TagAt(m_graphTag, Top.path)
SetTop(f) == [stack EXCEPT ![Len(stack)] = f]
Elem == IF Top.phase = "nodes" THEN Tag.nodes[Top.i] ELSE Tag.edges[Top.i]

\* next iteration of the loop over nodeTags / edgeTags
Advance(f) == [f EXCEPT !.i = @ + 1, !.mode = "elem", !.j = 0]

\* if (GA && !readAttributes(*GA, item, tag)): readAttributes visits the
\* <data> sons of tag in document order
EnterData(f, item, target, ds) ==
    IF WithAttrs(variant) /\ ds # <<>>
    THEN [f EXCEPT !.mode = "data", !.j = 1, !.item = item, !.target = target]
    ELSE Advance(f)

\* a readData call returned: next <data> son, or back in the element loop
AfterData(f, ds) == IF f.j < Len(ds) THEN [f EXCEPT !.j = @ + 1] ELSE Advance(f)

\* return false, through every frame up to read's caller
ReturnFalse ==
    /\ pc' = "idle"
    /\ result' = "false"
    /\ stack' = <<>>

\* what locals declared without initializer may hold
UninitValues == {0, 77}

(***************************************************************************)
(* GraphMLParser::read, all four overloads                                 *)
(***************************************************************************)
ReadFailedAfterClear(v) ==
    /\ pc = "idle"
    /\ m_error
    /\ variant' = v
    /\ result' = "false"
    /\ G' = EmptyGraph
    /\ m_nodeId' = Empty
    /\ UNCHANGED <<doc, pc, m_error, m_graphTag, m_attrName, C, GA, CA, stack>>

\* if (m_error) return false;
ReadFailed(v) ==
    /\ pc = "idle"
    /\ m_error
    /\ variant' = v
    /\ result' = "false"
    /\ UNCHANGED <<doc, pc, m_error, m_graphTag, m_attrName, m_nodeId, G, C, GA, CA, stack>>

\* G.clear()
ClearKept(g) == g
Clear(g) == EmptyGraph

\* G.clear(); m_nodeId.clear(); then readNodes or readClusters on *m_graphTag.
\* Clearing the graph empties the cluster tree and the attribute arrays
\* registered with it.
ReadStart(v) ==
    /\ pc = "idle"
    /\ ~m_error
    /\ pc' = "reading"
    /\ variant' = v
    /\ result' = "none"
    /\ G' = Clear(G)
    /\ m_nodeId' = Empty
    /\ C' = EmptyClusters
    /\ GA' = [GA EXCEPT !.node = Empty, !.edge = Empty]
    /\ CA' = Empty
    /\ stack' = <<Frame(<<>>, RootCluster)>>
    /\ UNCHANGED <<doc, m_error, m_graphTag, m_attrName>>

\* idAttr == nullptr
MissingIdNever(nodeTag) == FALSE
MissingId(nodeTag) == nodeTag.id = NoAttr

\* m_nodeId[idAttr->getValue()] = v
RegisterNothing(m, id, v) == m
Register(m, id, v) == Assign(m, id, v)

\* the rootCluster parameter of readClusters
FrameClusterRoot(f) == RootCluster
FrameCluster(f) == f.c

AtElem(phase) ==
    /\ pc = "reading"
    /\ Top.phase = phase
    /\ Top.mode = "elem"

(***************************************************************************)
(* GraphMLParser::readNodes, one iteration                                 *)
(***************************************************************************)
ReadNodes ==
    /\ AtElem("nodes")
    /\ ~Clustered(variant)
    /\ Top.i <= Len(Tag.nodes)
    /\ LET nodeTag == Tag.nodes[Top.i]
           v == G.n + 1
       IN  IF MissingId(nodeTag)
           THEN /\ ReturnFalse
                /\ UNCHANGED <<G, C, GA, m_nodeId>>
           ELSE /\ G' = [G EXCEPT !.n = v]
                /\ C' = [C EXCEPT !.of = Append(@, RootCluster)]
                /\ GA' = [GA EXCEPT !.node = Append(@, NodeAttrInit)]
                /\ m_nodeId' = Register(m_nodeId, nodeTag.id, v)
                /\ stack' = SetTop(EnterData(Top, v, "node", nodeTag.data))
                /\ UNCHANGED <<pc, result>>
    /\ UNCHANGED <<doc, m_error, m_graphTag, m_attrName, CA, variant>>

(***************************************************************************)
(* GraphMLParser::readClusters, one iteration of the loop over nodeTags    *)
(***************************************************************************)
ReadClusters ==
    /\ AtElem("nodes")
    /\ Clustered(variant)
    /\ Top.i <= Len(Tag.nodes)
    /\ LET nodeTag == Tag.nodes[Top.i]
           v == G.n + 1
           c == C.n + 1
       IN  IF nodeTag.graph = NoTag
           THEN IF MissingId(nodeTag)
                THEN /\ ReturnFalse
                     /\ UNCHANGED <<G, C, GA, CA, m_nodeId>>
                ELSE /\ G' = [G EXCEPT !.n = v]
                     /\ C' = [C EXCEPT !.of = Append(@, FrameCluster(Top))]
                     /\ GA' = [GA EXCEPT !.node = Append(@, NodeAttrInit)]
                     /\ m_nodeId' = Register(m_nodeId, nodeTag.id, v)
                     /\ stack' = SetTop(EnterData(Top, v, "node", nodeTag.data))
                     /\ UNCHANGED <<pc, result, CA>>
           ELSE /\ C' = [C EXCEPT !.n = c, !.parent = Append(@, FrameCluster(Top))]
                /\ CA' = Append(CA, ClusterAttrInit)
                /\ stack' = Append(SetTop([Top EXCEPT !.mode = "call", !.item = c]),
                                   Frame(Top.path \o <<Top.i>>, c))
                /\ UNCHANGED <<pc, result, G, GA, m_nodeId>>
    /\ UNCHANGED <<doc, m_error, m_graphTag, m_attrName, variant>>

\* the loop over nodeTags is over: readNodes(..) && readEdges(..), and
\* readClusters' return readEdges(G, CA, rootTag)
NodesDone ==
    /\ AtElem("nodes")
    /\ Top.i > Len(Tag.nodes)
    /\ stack' = SetTop([Top EXCEPT !.phase = "edges", !.i = 1])
    /\ UNCHANGED <<doc, pc, m_error, m_graphTag, m_attrName, m_nodeId, G, C, GA, CA,
                   variant, result>>

(***************************************************************************)
(* GraphMLParser::readEdges, one iteration.  G.newEdge on a null node      *)
(* handle is undefined: the process dies, or an edge with that end exists. *)
(***************************************************************************)
ReadEdges ==
    /\ AtElem("edges")
    /\ Top.i <= Len(Tag.edges)
    /\ LET edgeTag == Tag.edges[Top.i]
           ids == Subscript(Subscript(m_nodeId, edgeTag.source, NullNode),
                            edgeTag.target, NullNode)
           e == Len(G.edges) + 1
       IN  IF edgeTag.source = NoAttr
           THEN ReturnFalse /\ UNCHANGED <<G, GA, m_nodeId>>
           ELSE IF edgeTag.target = NoAttr
           THEN ReturnFalse /\ UNCHANGED <<G, GA, m_nodeId>>
           ELSE /\ m_nodeId' = ids
                /\ \/ /\ G' = [G EXCEPT !.edges = Append(@, <<ids[edgeTag.source], ids[edgeTag.target]>>)]
                      /\ GA' = [GA EXCEPT !.edge = Append(@, EdgeAttrInit)]
                      /\ stack' = SetTop(EnterData(Top, e, "edge", edgeTag.data))
                      /\ UNCHANGED <<pc, result>>
                   \/ /\ NullNode \in {ids[edgeTag.source], ids[edgeTag.target]}
                      /\ pc' = "crashed"
                      /\ UNCHANGED <<G, GA, stack, result>>
    /\ UNCHANGED <<doc, m_error, m_graphTag, m_attrName, C, CA, variant>>

\* the loop over edgeTags of the outermost frame is over: read returns true
ReadReturn ==
    /\ AtElem("edges")
    /\ Top.i > Len(Tag.edges)
    /\ Len(stack) = 1
    /\ pc' = "idle"
    /\ result' = "true"
    /\ stack' = <<>>
    /\ UNCHANGED <<doc, m_error, m_graphTag, m_attrName, m_nodeId, G, C, GA, CA, variant>>

\* a nested readClusters returns true: the caller goes on with
\* if (CA && !readAttributes(*CA, c, nodeTag))
ReadClustersReturn ==
    /\ AtElem("edges")
    /\ Top.i > Len(Tag.edges)
    /\ Len(stack) > 1
    /\ LET below == SubSeq(stack, 1, Len(stack) - 1)
           caller == below[Len(below)]
           nodeTag == TagAt(m_graphTag, caller.path).nodes[caller.i]
       IN  stack' = [below EXCEPT ![Len(below)] =
                        EnterData(caller, caller.item, "cluster", nodeTag.data)]
    /\ UNCHANGED <<doc, pc, m_error, m_graphTag, m_attrName, m_nodeId, G, C, GA, CA,
                   variant, result>>

(***************************************************************************)
(* GraphMLParser::readData, the three overloads, one <data> son            *)
(***************************************************************************)
AtData(target) ==
    /\ pc = "reading"
    /\ Top.mode = "data"
    /\ Top.target = target

Data == Elem.data[Top.j]
\* m_attrName[keyId->getValue()]
Named(key) == Subscript(m_attrName, key, "")
KindOf(key) == toAttribute(Named(key)[key])

ReadDataNode ==
    /\ AtData("node")
    /\ IF Data.key = NoAttr
       THEN ReturnFalse /\ UNCHANGED <<GA, m_attrName>>
       ELSE /\ m_attrName' = Named(Data.key)
            /\ \E u1 \in UninitValues, u2 \in UninitValues :
                 GA' = [GA EXCEPT !.node[Top.item] =
                           readDataNode(@, GA.mask, KindOf(Data.key), Data.value, u1, u2)]
            /\ stack' = SetTop(AfterData(Top, Elem.data))
            /\ UNCHANGED <<pc, result>>
    /\ UNCHANGED <<doc, m_error, m_graphTag, m_nodeId, G, C, CA, variant>>

ReadDataEdge ==
    /\ AtData("edge")
    /\ IF Data.key = NoAttr
       THEN ReturnFalse /\ UNCHANGED <<GA, m_attrName>>
       ELSE /\ m_attrName' = Named(Data.key)
            /\ GA' = [GA EXCEPT !.edge[Top.item] =
                         readDataEdge(@, GA.mask, KindOf(Data.key), Data.value)]
            /\ stack' = SetTop(AfterData(Top, Elem.data))
            /\ UNCHANGED <<pc, result>>
    /\ UNCHANGED <<doc, m_error, m_graphTag, m_nodeId, G, C, CA, variant>>

ReadDataCluster ==
    /\ AtData("cluster")
    /\ IF Data.key = NoAttr
       THEN ReturnFalse /\ UNCHANGED <<CA, m_attrName>>
       ELSE /\ m_attrName' = Named(Data.key)
            /\ \E u1 \in UninitValues, u2 \in UninitValues :
                 CA' = [CA EXCEPT ![Top.item] =
                           readDataCluster(@, GA.mask, KindOf(Data.key), Data.value, u1, u2)]
            /\ stack' = SetTop(AfterData(Top, Elem.data))
            /\ UNCHANGED <<pc, result>>
    /\ UNCHANGED <<doc, m_error, m_graphTag, m_nodeId, G, C, GA, variant>>

(***************************************************************************)
(* Specifications                                                          *)
(***************************************************************************)
Walk ==
    \/ ReadNodes
    \/ ReadClusters
    \/ NodesDone
    \/ ReadEdges
    \/ ReadReturn
    \/ ReadClustersReturn

Next ==
    \/ Construct
    \/ \E v \in Variants : ReadFailed(v)
    \/ \E v \in Variants : ReadStart(v)
    \/ Walk
    \/ ReadDataNode
    \/ ReadDataEdge
    \/ ReadDataCluster

Init == InitWith(AttrInputs)
Spec == Init /\ [][Next]_vars

NextStruct ==
    \/ Construct
    \/ \E v \in Variants : ReadStart(v)
    \/ Walk

InitStruct == InitWith(StructInputs(MaxElems))
SpecStruct == InitStruct /\ [][NextStruct]_vars

TypeOK ==
    /\ pc \in {"new", "idle", "reading", "crashed"}
    /\ result \in {"none", "true", "false"}
    /\ variant \in Variants \cup {"none"}

(***************************************************************************)
(* Properties                                                              *)
(***************************************************************************)
\* a read of the given kind has returned and nothing has happened since
Returned == pc = "idle" /\ variant # "none"
FlatReturned == Returned /\ ~Clustered(variant)
ClusteredReturned == Returned /\ Clustered(variant)

Range(f) == {f[i] : i \in DOMAIN f}
NodeIdsOf(g) == {g.nodes[i].id : i \in DOMAIN g.nodes}

\* the node elements of the top-level graph all carry an id, no id twice,
\* and every edge element names two of these ids
FlatValid(g) ==
    /\ NoAttr \notin NodeIdsOf(g)
    /\ \A i, k \in DOMAIN g.nodes : g.nodes[i].id = g.nodes[k].id => i = k
    /\ \A i \in DOMAIN g.edges :
        g.edges[i].source \in NodeIdsOf(g) /\ g.edges[i].target \in NodeIdsOf(g)

\* C1: a flat read of a valid document on a successfully constructed parser
\* returns true and leaves exactly one node per node element and one edge
\* per edge element of the top-level graph, whatever G held before; it never
\* dies on a null node handle.
C1_FlatReadCounts ==
    /\ (FlatReturned /\ ~m_error /\ FlatValid(doc.graph)) =>
            /\ result = "true"
            /\ G.n = Len(doc.graph.nodes)
            /\ Len(G.edges) = Len(doc.graph.edges)
            /\ \A i \in DOMAIN G.edges : NullNode \notin Range(G.edges[i])
    /\ (pc = "crashed" /\ ~Clustered(variant)) => ~FlatValid(doc.graph)

C1_Witness ==
    /\ FlatReturned
    /\ FlatValid(doc.graph)
    /\ result = "true"
    /\ G.n = 2
    /\ Len(G.edges) = 1
    /\ G.edges[1] = <<2, 1>>

\* the constructor's structural checks
Malformed(d) ==
    \/ ~d.parseOk
    \/ d.root # "graphml"
    \/ d.graph = NoTag
    \/ \E i \in DOMAIN d.keys : d.keys[i].id = NoAttr \/ d.keys[i].name = NoAttr

\* C2: after a construction that failed a structural check m_error is set,
\* and from then on every read returns false and leaves G, C, GA, CA and
\* m_nodeId as they were; the parser stays failed.
C2_FailedIsPermanent ==
    /\ [](pc # "new" => (m_error <=> Malformed(doc)))
    /\ [][(pc = "idle" /\ m_error) =>
            /\ result' = "false"
            /\ m_error'
            /\ pc' = "idle"
            /\ UNCHANGED <<G, C, GA, CA, m_nodeId>>]_vars

C2_Witness ==
    /\ m_error
    /\ Returned
    /\ variant = "G_C_CA"
    /\ result = "false"
    /\ G.n > 0
    /\ Len(doc.keys) = 2

RECURSIVE IdlessAnywhere(_)
IdlessAnywhere(g) ==
    \E i \in DOMAIN g.nodes :
        \/ g.nodes[i].id = NoAttr
        \/ g.nodes[i].graph # NoTag /\ IdlessAnywhere(g.nodes[i].graph)

RECURSIVE IdlessLeaf(_)
IdlessLeaf(g) ==
    \E i \in DOMAIN g.nodes :
        IF g.nodes[i].graph = NoTag
        THEN g.nodes[i].id = NoAttr
        ELSE IdlessLeaf(g.nodes[i].graph)

\* the node elements without id that the read variant ingests as graph nodes
IdlessIngested(g, v) == IF Clustered(v) THEN IdlessLeaf(g) ELSE NoAttr \in NodeIdsOf(g)

\* C3 as stated: a node element without id anywhere in the document makes
\* every read variant return false.
C3_AnyIdlessNodeFails ==
    (Returned /\ ~m_error /\ IdlessAnywhere(doc.graph)) => result = "false"

\* C3 (amended): a read returns false whenever it returns, if a node element
\* without id is one the read ingests as a graph node: a direct child of the
\* top-level graph in a flat read, a node element without nested graph (at
\* any depth) in a clustered read.
C3_IngestedIdlessNodeFails ==
    (Returned /\ ~m_error /\ IdlessIngested(doc.graph, variant)) => result = "false"

C3_Witness ==
    /\ ClusteredReturned
    /\ result = "false"
    /\ ~m_error
    /\ NoAttr \notin NodeIdsOf(doc.graph)
    /\ IdlessLeaf(doc.graph)
    /\ G.n = 1

RECURSIVE AllNodeIds(_)
AllNodeIds(g) ==
    (NodeIdsOf(g) \ {NoAttr})
        \cup UNION {IF g.nodes[i].graph = NoTag THEN {} ELSE AllNodeIds(g.nodes[i].graph) :
                    i \in DOMAIN g.nodes}

RECURSIVE AllEdgesDeclared(_, _)
AllEdgesDeclared(g, ids) ==
    /\ \A i \in DOMAIN g.edges : g.edges[i].source \in ids /\ g.edges[i].target \in ids
    /\ \A i \in DOMAIN g.nodes :
        g.nodes[i].graph # NoTag => AllEdgesDeclared(g.nodes[i].graph, ids)

\* ids of the node elements without nested graph, in g and nested in it
RECURSIVE LeafIds(_)
LeafIds(g) ==
    UNION {IF g.nodes[i].graph = NoTag
           THEN {g.nodes[i].id} \ {NoAttr}
           ELSE LeafIds(g.nodes[i].graph) : i \in DOMAIN g.nodes}

\* readEdges is about to look up the ends of an edge element
AtEdge ==
    /\ AtElem("edges")
    /\ Top.i <= Len(Tag.edges)
    /\ Tag.edges[Top.i].source # NoAttr
    /\ Tag.edges[Top.i].target # NoAttr

Registered(id) == id \in DOMAIN m_nodeId /\ m_nodeId[id] # NullNode
EndsRegistered == Registered(Tag.edges[Top.i].source) /\ Registered(Tag.edges[Top.i].target)

InScope(g, v) == IF Clustered(v) THEN LeafIds(g) ELSE NodeIdsOf(g) \ {NoAttr}

RECURSIVE Described(_, _, _, _)
Described(ns, k, c, acc) ==
    IF k > Len(ns) THEN acc
    ELSE IF ns[k].graph = NoTag
    THEN Described(ns, k + 1, c, [acc EXCEPT !.of = Append(@, c)])
    ELSE Described(ns, k + 1, c,
            Described(ns[k].graph.nodes, 1, acc.n + 1,
                      [acc EXCEPT !.n = @ + 1, !.parent = Append(@, c)]))
DescribedTree(g) == Described(g.nodes, 1, RootCluster, EmptyClusters)

IsPrefix(a, b) == Len(a) <= Len(b) /\ SubSeq(b, 1, Len(a)) = a

\* C7: in a clustered read every created cluster has one parent, an
\* earlier cluster or the root, so it is reachable from the root; the
\* cluster of a frame is a child of the cluster of the frame that called
\* it; at every point the clusters and node assignments made so far are
\* the ones the document describes, and after a successful read they are
\* all of them.
C7_ClusterTree ==
    /\ Len(C.parent) = C.n
    /\ Len(C.of) = G.n
    /\ \A c \in 1..C.n : C.parent[c] \in 0..(c - 1)
    /\ \A v \in 1..G.n : C.of[v] \in 0..C.n
    /\ pc = "reading" =>
        /\ stack[1].c = RootCluster
        /\ \A k \in 2..Len(stack) :
            /\ stack[k].c \in 1..C.n
            /\ C.parent[stack[k].c] = stack[k - 1].c
    /\ (Clustered(variant) /\ pc # "new" /\ ~m_error) =>
        /\ IsPrefix(C.parent, DescribedTree(doc.graph).parent)
        /\ IsPrefix(C.of, DescribedTree(doc.graph).of)
    /\ (ClusteredReturned /\ result = "true") => C = DescribedTree(doc.graph)

C7_Witness ==
    /\ ClusteredReturned
    /\ result = "true"
    /\ C.n = 2
    /\ C.parent = <<0, 1>>
    /\ C.of = <<2>>

\* readData is about to dispatch a <data> son that has a key
Dispatching(target) == AtData(target) /\ Data.key # NoAttr
SizeDispatch(target) ==
    /\ Dispatching(target)
    /\ KindOf(Data.key) = "a_size"
    /\ target = "node" => "nodeGraphics" \in GA.mask

\* width and height after a size element, given them before it
SizeEffect(old, new, text) ==
    LET parsed == ExtractNum(Stream(text))
    IN  IF old.width = old.height
        THEN /\ new.width = new.height
             /\ parsed.wrote => new.width = parsed.val
        ELSE /\ new.width = old.width
             /\ new.height = old.height

\* C5: a size element dispatched to a node (node graphics enabled) or to a
\* cluster sets width and height to the parsed size if they were equal just
\* before it and leaves both as they were otherwise, so the outcome depends
\* on the order of the width, height and size elements.
C5_SizeOnlyWhenEqual ==
    [][/\ SizeDispatch("node") =>
            SizeEffect(GA.node[Top.item], GA'.node[Top.item], Data.value)
       /\ SizeDispatch("cluster") =>
            SizeEffect(CA[Top.item], CA'[Top.item], Data.value)]_vars

\* width 5 then size 9 on node a: the size is ignored
C5_Witness ==
    /\ Returned
    /\ variant = "G_GA"
    /\ result = "true"
    /\ GA.mask = Bits
    /\ doc.graph.nodes[1].data = <<DataElem("d_width", <<"5">>), DataElem("d_size", <<"9">>)>>
    /\ GA.node[1].width = 5
    /\ GA.node[1].height = 20

\* C6: a <data> son whose key resolves to no attribute kind (a name outside
\* the vocabulary, or an id never declared) changes no field of any node,
\* edge or cluster, does not end the read, and the next <data> son of the
\* same element is dispatched after it.
C6_UnknownIsIgnored ==
    [][\A t \in {"node", "edge", "cluster"} :
        (Dispatching(t) /\ KindOf(Data.key) = a_unknown) =>
            /\ GA' = GA
            /\ CA' = CA
            /\ pc' = "reading"
            /\ result' = result
            /\ Top.j < Len(Elem.data) =>
                /\ stack'[Len(stack')].mode = "data"
                /\ stack'[Len(stack')].j = Top.j + 1
                /\ stack'[Len(stack')].item = Top.item]_vars

\* an undeclared key, then width 5, on node a: the width is applied
C6_Witness ==
    /\ Returned
    /\ result = "true"
    /\ variant = "G_GA"
    /\ doc.graph.nodes[1].data = <<DataElem(Undeclared, <<"5">>), DataElem("d_width", <<"5">>)>>
    /\ GA.node[1].width = 5

\* C8 as stated: after construction no step changes the key registry.
C8_KeyRegistryImmutable ==
    [][pc # "new" => m_attrName' = m_attrName]_vars

\* the capability bit that guards each field
NodeFieldBit ==
    [label |-> "nodeLabel", x |-> "nodeGraphics", y |-> "nodeGraphics",
     width |-> "nodeGraphics", height |-> "nodeGraphics", shape |-> "nodeGraphics",
     z |-> "threeD", fillColor |-> "nodeStyle", strokeColor |-> "nodeStyle",
     type |-> "nodeType", templateNode |-> "nodeTemplate", weight |-> "nodeWeight"]
EdgeFieldBit ==
    [label |-> "edgeLabel", intWeight |-> "edgeIntWeight",
     doubleWeight |-> "edgeDoubleWeight", type |-> "edgeType",
     arrowType |-> "edgeArrow", strokeColor |-> "edgeStyle"]
\* the capability bits of each node and edge attribute kind
KindBits(kind) ==
    CASE kind = "a_nodeLabel" -> {"nodeLabel"}
      [] kind \in {"a_x", "a_y", "a_width", "a_height", "a_size", "a_shape"} -> {"nodeGraphics"}
      [] kind = "a_z" -> {"threeD"}
      [] kind \in {"a_r", "a_g", "a_b", "a_nodeFill", "a_nodeStroke"} -> {"nodeStyle"}
      [] kind = "a_nodeType" -> {"nodeType"}
      [] kind = "a_template" -> {"nodeTemplate"}
      [] kind = "a_nodeWeight" -> {"nodeWeight"}
      [] kind = "a_edgeLabel" -> {"edgeLabel"}
      [] kind = "a_edgeWeight" -> {"edgeIntWeight", "edgeDoubleWeight"}
      [] kind = "a_edgeType" -> {"edgeType"}
      [] kind = "a_edgeArrow" -> {"edgeArrow"}
      [] kind = "a_edgeStroke" -> {"edgeStyle"}
      [] OTHER -> {}

\* what a cluster element with a parsable value stores, mask or no mask
ClusterStored(kind, text, new) ==
    LET num == ExtractNum(Stream(text))
        str == ExtractStr(Stream(text))
    IN  /\ (kind = "a_nodeLabel" /\ str.wrote) => new.label = str.val
        /\ (kind = "a_x" /\ num.wrote) => new.x = num.val
        /\ (kind = "a_y" /\ num.wrote) => new.y = num.val
        /\ (kind = "a_width" /\ num.wrote) => new.width = num.val
        /\ (kind = "a_height" /\ num.wrote) => new.height = num.val
        /\ (kind = "a_r" /\ num.wrote) => new.fillColor.red = num.val % 256
        /\ (kind = "a_g" /\ num.wrote) => new.fillColor.green = num.val % 256
        /\ (kind = "a_b" /\ num.wrote) => new.fillColor.blue = num.val % 256
        /\ kind = "a_clusterStroke" => new.strokeColor = toColor(text)

\* C9: dispatching a node or edge element changes a field only if the
\* field's capability bit is in the mask; with the bits of the element's
\* kind disabled nothing changes at all; either way the read goes on.  A
\* cluster element is stored whatever the mask.
C9_CapabilityGating ==
    [][/\ Dispatching("node") =>
            /\ pc' = "reading"
            /\ CA' = CA /\ GA'.edge = GA.edge /\ GA'.mask = GA.mask
            /\ \A v \in DOMAIN GA.node, f \in DOMAIN NodeFieldBit :
                GA'.node[v][f] # GA.node[v][f] =>
                    v = Top.item /\ NodeFieldBit[f] \in GA.mask
            /\ KindBits(KindOf(Data.key)) \cap GA.mask = {} => GA' = GA
       /\ Dispatching("edge") =>
            /\ pc' = "reading"
            /\ CA' = CA /\ GA'.node = GA.node /\ GA'.mask = GA.mask
            /\ \A e \in DOMAIN GA.edge, f \in DOMAIN EdgeFieldBit :
                GA'.edge[e][f] # GA.edge[e][f] =>
                    e = Top.item /\ EdgeFieldBit[f] \in GA.mask
            /\ KindBits(KindOf(Data.key)) \cap GA.mask = {} => GA' = GA
       /\ Dispatching("cluster") =>
            /\ pc' = "reading"
            /\ GA' = GA
            /\ ClusterStored(KindOf(Data.key), Data.value, CA'[Top.item])]_vars

\* x = 5 on node a read with every bit but nodeGraphics: x stays 0
C9_Witness ==
    /\ Returned
    /\ result = "true"
    /\ variant = "G_GA"
    /\ GA.mask = Bits \ {"nodeGraphics"}
    /\ doc.graph.nodes[1].data = <<DataElem("d_x", <<"5">>)>>
    /\ GA.node[1].x = 0

\* C10 as stated: a size element on a cluster changes width and height
\* only; the red channel of the fill colour stays as it was.
C10_ClusterSizeLeavesColour ==
    [][SizeDispatch("cluster") =>
        /\ [CA'[Top.item] EXCEPT !.width = 0, !.height = 0]
                = [CA[Top.item] EXCEPT !.width = 0, !.height = 0]
        /\ CA'[Top.item].fillColor.red = CA[Top.item].fillColor.red]_vars

====
